---- MODULE Spec2Model ----
(***************************************************************************)
(* Waterway routing backend: the tile key (quadkey.rs), the sqlite store   *)
(* and the importer (db.rs), and the /route handler (main.rs, web.rs).     *)
(*                                                                         *)
(* Coordinates.  A coordinate is held as the exact fraction the tile       *)
(* projection makes of it: lon is (lon+180)/360 = n/d, lat is the          *)
(* projected ordinate (1 - log2(tan+sec)/PI)/2 = n/d (lat 0.0 is 1/2).     *)
(* The nodes of the graph lie on the equator, lon.d = EquatorLength, so    *)
(* that lon.n is the arc length from the antimeridian in decimetres and    *)
(* the haversine distance of two nodes is the difference of their lon.n,   *)
(* rounded to the metre.                                                   *)
(***************************************************************************)
EXTENDS Integers, Sequences, FiniteSets, TLC

VARIABLES
    nodes,        \* table nodes: the set of rows [id, lat, lon, quadkey]
    links,        \* table links: sequence of rows [source, destination]; the
                  \* AUTOINCREMENT id of a row is its index
    foreign_keys, \* whether the sqlite build enforces FOREIGN KEY clauses
    proc,         \* what the process is doing: "down", "import", "serve",
                  \* "opened" (Database::new has returned Ok)
    before,       \* open: the node rows of the file Database::new was given
    objs,         \* import: the objects of the run still to be stored
    input,        \* import: the dataset of the last run started
    repeat,       \* import: whether that run has the input of the run before
    history,      \* import: one record per finished run: whether it had the
                  \* input of the run before, whether import returned Ok,
                  \* and the two counts at its end
    upserted,     \* import: id -> the node record update_node last stored, or
                  \* NoRecord
    moved,        \* import: the ids whose last upsert replaced a row of
                  \* another place
    pc,           \* serve: request -> where its route call stands
    params,       \* serve: request -> QueryParams
    maybe_start,  \* serve: request -> find_near of (lat1, lon1)
    maybe_goal,   \* serve: request -> find_near of (lat2, lon2)
    result,       \* serve: request -> what astar returned, or NotRun
    rejection,    \* serve: request -> the Rejection route returned
    response,     \* serve: request -> the reply sent, or NoReply
    failure,      \* serve: request -> the call of the store that returned a
                  \* storage error to route's request, or "none"
    lock,         \* serve: the request holding the tokio Mutex, or Free
    waiters,      \* serve: the requests queued in lock().await, in order
    tpoint,       \* tile key runs: the point
    tkeys         \* tile key runs: tkeys[z] = Quadkey::new(point, z)

vars == <<nodes, links, foreign_keys, proc, before, objs, input, repeat, history, upserted,
          moved, pc, params,
          maybe_start, maybe_goal, result, rejection, response, failure, lock,
          waiters, tpoint, tkeys>>

store_vars  == <<nodes, links, foreign_keys>>
import_vars == <<objs, input, repeat, history, upserted, moved>>
serve_vars  == <<pc, params, maybe_start, maybe_goal, result, rejection,
                 response, failure, lock, waiters>>
tile_vars   == <<tpoint, tkeys>>
open_vars   == <<before>>

(***************************************************************************)
(* Bounds of the model.                                                    *)
(***************************************************************************)
MaxImports  == 2    \* import runs in one behaviour
MaxRequests == 2    \* route requests in one behaviour
MaxZoom     == 4    \* zoom levels of a tile key run
TileDen     == 12   \* tile key runs: coordinates are n/TileDen, n in 0..TileDen

(***************************************************************************)
(* Program constants.                                                      *)
(***************************************************************************)
STORE_ZOOM    == 13          \* Quadkey::new(lat, lon, 13)
QUERY_ZOOM    == 12          \* Quadkey::new(lat, lon, 12), substr(quadkey, 1, 12)
GOAL_RADIUS   == 100         \* n.distance_to(&goal) < 100
EquatorLength == 400301736   \* 2 * PI * 6371e3 metres, in decimetres

NoRecord == [kind |-> "none"]  \* no node record of that id was stored
NULL    == <<>>                \* a NULL quadkey
NullCoord == [n |-> 0, d |-> 0]  \* a NULL lat or lon
None    == [some |-> FALSE]    \* Option::None
NotRun  == [run |-> FALSE]     \* astar was not called
NoReply == [status |-> 0]      \* no reply sent yet
Free    == 0                   \* no request holds the Mutex

Abs(x) == IF x < 0 THEN -x ELSE x

Pow2(k) == 2^k

\* f64::round of the non-negative n/d: half away from zero
Round(n, d) == (2 * n + d) \div (2 * d)

\* the elements of a finite set of integers, ascending
RECURSIVE Ascending(_)
Ascending(S) ==
    IF S = {} THEN <<>>
    ELSE CHOOSE seq \in {<<m>> \o Ascending(S \ {m}) :
                            m \in {x \in S : \A y \in S : x <= y}} : TRUE

(***************************************************************************)
(* quadkey.rs                                                              *)
(***************************************************************************)
\* Quadkey::tile: (xtile, ytile), each the projected fraction times 2^zoom,
\* rounded
tile(lat, lon, zoom) ==
    <<Round(lon.n * Pow2(zoom), lon.d), Round(lat.n * Pow2(zoom), lat.d)>>

Bit(x, mask) == (x \div mask) % 2

DigitChar(digit) ==
    CASE digit = 0 -> "0"
      [] digit = 1 -> "1"
      [] digit = 2 -> "2"
      [] digit = 3 -> "3"
      [] OTHER     -> "?"

\* Quadkey::new with the loop over i = 1..zoom: least significant digit first
Quadkey_new_ascending(lat, lon, zoom) ==
    LET t == tile(lat, lon, zoom)
    IN [j \in 1..zoom |->
            DigitChar(Bit(t[1], Pow2(j - 1)) + 2 * Bit(t[2], Pow2(j - 1)))]

\* Quadkey::new: (xtile, ytile) is computed once; then one character per
\* level i = zoom..1, from bit i-1 of xtile (weight 1) and of ytile (weight 2)
Quadkey_new(lat, lon, zoom) ==
    CHOOSE quad_key \in
        {[j \in 1..zoom |->
            LET i    == zoom - j + 1
                mask == Pow2(i - 1)
            IN DigitChar(Bit(t[1], mask) + 2 * Bit(t[2], mask))] :
         t \in {tile(lat, lon, zoom)}} :
        TRUE

(***************************************************************************)
(* db.rs: distance                                                         *)
(***************************************************************************)
Equator == [n |-> 1, d |-> 2]                 \* lat 0.0
OnEquator(off) == [n |-> off, d |-> EquatorLength]

\* distance_between: r * c rounded to the metre; for two nodes of the
\* equator c is the absolute difference of the longitudes in radians
distance_between(a, b) ==
    LET delta_lambda == b.lon.n - a.lon.n
    IN Round(Abs(delta_lambda), 10)

(***************************************************************************)
(* db.rs: the store                                                        *)
(***************************************************************************)
NodeIds == {1, 2, 3}

EmptyNodes == {}

has_row(ns, id) == \E row \in ns : row.id = id
row_of(ns, id)  == CHOOSE row \in ns : row.id = id

\* SELECT count(*) FROM nodes, SELECT count(*) FROM links
node_count(ns) == Cardinality(ns)
link_count(ls) == Len(ls)

node_row(node) ==
    [id |-> node.id, lat |-> node.lat, lon |-> node.lon,
     quadkey |-> Quadkey_new(node.lat, node.lon, STORE_ZOOM)]

\* update_node over a table whose id is no PRIMARY KEY: a plain INSERT
update_node_insert(ns, node) == ns \cup {node_row(node)}

\* update_node: INSERT OR REPLACE INTO nodes (id, lat, lon, quadkey), id
\* INTEGER PRIMARY KEY: the row of that id is deleted, the new one inserted
update_node(ns, node) ==
    {row \in ns : row.id # node.id} \cup {node_row(node)}

\* the closure of query_map in fixup_quadkeys: row.get of lat and lon as f64
\* is Ok unless the column is NULL
row_read_ok(row) == row.lat # NullCoord /\ row.lon # NullCoord

\* fixup_quadkeys: UPDATE nodes SET quadkey = ? for the rows WHERE quadkey IS
\* NULL of which the read is Ok; the others are logged and left as they are
fixup_quadkeys(ns) ==
    {IF row.quadkey = NULL /\ row_read_ok(row)
     THEN [row EXCEPT !.quadkey = Quadkey_new(row.lat, row.lon, STORE_ZOOM)]
     ELSE row : row \in ns}

\* FOREIGN KEY(source) REFERENCES nodes(id), FOREIGN KEY(destination) ...:
\* whether the insert of a link row passes
link_accepted(ns, fk, source, destination) ==
    fk => (has_row(ns, source) /\ has_row(ns, destination))

\* INSERT OR REPLACE INTO links (source, destination): the row gets a fresh
\* AUTOINCREMENT id, and no constraint of the table names the pair
insert_link(ls, source, destination) ==
    Append(ls, [source |-> source, destination |-> destination])

\* update_way: one insert per window of two members; the first insert that
\* fails ends the call with Err and leaves the earlier rows in the table
RECURSIVE update_way_from(_, _, _, _, _)
update_way_from(ns, ls, fk, refs, i) ==
    IF i >= Len(refs) THEN [links |-> ls, ok |-> TRUE]
    ELSE IF ~link_accepted(ns, fk, refs[i], refs[i + 1])
         THEN [links |-> ls, ok |-> FALSE]
         ELSE update_way_from(ns, insert_link(ls, refs[i], refs[i + 1]), fk, refs, i + 1)

update_way(ns, ls, fk, way) == update_way_from(ns, ls, fk, way.refs, 1)

(***************************************************************************)
(* db.rs: the importer                                                     *)
(***************************************************************************)
Node(id, off) == [kind |-> "node", id |-> id, lat |-> Equator, lon |-> OnEquator(off)]
Way(id, refs) == [kind |-> "way", id |-> id, refs |-> refs]

\* the node and way records an input is made of
NodeRecords == {Node(1, 1000), Node(2, 1506), Node(3, 2202), Node(3, 50000)}
WayRecords  == {Way(1, <<2, 1, 3>>), Way(2, <<1, 2>>)}

\* an input holds at most one record per id (a BTreeMap keyed by OsmId)
Datasets ==
    {[nodes |-> ns, ways |-> ws] :
        ns \in {s \in SUBSET NodeRecords : \A a, b \in s : a.id = b.id => a = b},
        ws \in SUBSET WayRecords}

\* the iteration of load_osm_pbf over objs: OsmId orders the nodes before
\* the ways, each by id
objs_in_order(ds) ==
    LET node_of(id) == CHOOSE r \in ds.nodes : r.id = id
        way_of(id)  == CHOOSE r \in ds.ways : r.id = id
        node_ids    == Ascending({r.id : r \in ds.nodes})
        way_ids     == Ascending({r.id : r \in ds.ways})
    IN [i \in 1..Len(node_ids) |-> node_of(node_ids[i])]
       \o [i \in 1..Len(way_ids) |-> way_of(way_ids[i])]

\* one turn of the loop of load_osm_pbf: the store after the object, and
\* whether the `?` let the loop go on
store_object(ns, ls, fk, obj) ==
    IF obj.kind = "node"
    THEN [nodes |-> update_node(ns, obj), links |-> ls, ok |-> TRUE]
    ELSE LET r == update_way(ns, ls, fk, obj)
         IN [nodes |-> ns, links |-> r.links, ok |-> r.ok]

\* load_osm_pbf from the first object to the end, or to the first Err
RECURSIVE load_osm_pbf(_, _, _, _)
load_osm_pbf(ns, ls, fk, os) ==
    IF os = <<>> THEN [nodes |-> ns, links |-> ls, ok |-> TRUE]
    ELSE LET r == store_object(ns, ls, fk, Head(os))
         IN IF r.ok THEN load_osm_pbf(r.nodes, r.links, fk, Tail(os)) ELSE r

\* main with the import subcommand: Database::new, then database.import
start_import(ds) ==
    /\ proc = "down"
    /\ Len(history) < MaxImports
    /\ proc' = "import"
    /\ nodes' = fixup_quadkeys(nodes)
    /\ input' = ds
    /\ repeat' = (history # <<>> /\ ds = input)
    /\ objs' = objs_in_order(ds)
    /\ UNCHANGED <<links, foreign_keys, history, upserted, moved, serve_vars, tile_vars, open_vars>>

\* the body of the loop of load_osm_pbf, for the next object
import_object ==
    /\ proc = "import"
    /\ objs # <<>>
    /\ upserted' = IF Head(objs).kind = "node"
                   THEN [upserted EXCEPT ![Head(objs).id] = Head(objs)]
                   ELSE upserted
    /\ moved' = IF Head(objs).kind # "node" THEN moved
                ELSE IF \E row \in nodes : /\ row.id = Head(objs).id
                                           /\ <<row.lat, row.lon>> # <<Head(objs).lat, Head(objs).lon>>
                THEN moved \cup {Head(objs).id}
                ELSE moved \ {Head(objs).id}
    /\ LET r == store_object(nodes, links, foreign_keys, Head(objs))
       IN /\ nodes' = r.nodes
          /\ links' = r.links
          /\ IF r.ok
             THEN /\ objs' = Tail(objs)
                  /\ UNCHANGED <<proc, history>>
             ELSE /\ objs' = <<>>
                  /\ proc' = "down"
                  /\ history' = Append(history,
                        [repeat |-> repeat, ok |-> FALSE,
                         nodes |-> node_count(r.nodes), links |-> link_count(r.links)])
    /\ UNCHANGED <<foreign_keys, input, repeat, serve_vars, tile_vars, open_vars>>

\* the end of the loop: import returns Ok and main logs the two counts
finish_import ==
    /\ proc = "import"
    /\ objs = <<>>
    /\ proc' = "down"
    /\ history' = Append(history,
            [repeat |-> repeat, ok |-> TRUE,
             nodes |-> node_count(nodes), links |-> link_count(links)])
    /\ UNCHANGED <<store_vars, objs, input, repeat, upserted, moved, serve_vars, tile_vars, open_vars>>

(***************************************************************************)
(* db.rs: Database::new over a file that holds rows already                *)
(***************************************************************************)
\* the rows a file may hold for an id: written by update_node, or with a
\* key of another place, or without a key, or without key and coordinates
\* (the columns lat, lon and quadkey are declared without NOT NULL)
file_rows(id) ==
    {node_row(Node(id, 1000 * id)),
     [node_row(Node(id, 1000 * id)) EXCEPT !.quadkey = Quadkey_new(Equator, OnEquator(0), STORE_ZOOM)],
     [node_row(Node(id, 1000 * id)) EXCEPT !.quadkey = NULL],
     [id |-> id, lat |-> NullCoord, lon |-> NullCoord, quadkey |-> NULL]}

\* the nodes tables of the files: at most one row per id
Files == {ns \in SUBSET (UNION {file_rows(id) : id \in NodeIds}) :
            \A a, b \in ns : a.id = b.id => a = b}

\* Database::new returns Ok: open, init (the tables exist), fixup_quadkeys
Database_new ==
    /\ proc = "down"
    /\ before' = nodes
    /\ nodes' = fixup_quadkeys(nodes)
    /\ proc' = "opened"
    /\ UNCHANGED <<links, foreign_keys, import_vars, serve_vars, tile_vars>>

(***************************************************************************)
(* db.rs: the queries of the router                                        *)
(***************************************************************************)
RouteNode(row) == [id |-> row.id, lat |-> row.lat, lon |-> row.lon]

\* a fold that keeps the last of the elements of least distance to goal
RECURSIVE min_by_last(_, _, _)
min_by_last(seq, goal, best) ==
    IF seq = <<>> THEN best
    ELSE min_by_last(Tail(seq), goal,
                IF distance_between(Head(seq), goal) <= distance_between(best, goal)
                THEN Head(seq) ELSE best)

\* Iterator::min_by over a sequence: the first of the elements of least
\* distance to goal
RECURSIVE min_by(_, _, _)
min_by(seq, goal, best) ==
    IF seq = <<>> THEN best
    ELSE min_by(Tail(seq), goal,
                IF distance_between(Head(seq), goal) < distance_between(best, goal)
                THEN Head(seq) ELSE best)

\* the rows of the statement of find_near_err: SELECT id, lat, lon FROM
\* nodes WHERE substr(quadkey, 1, 12) = the key, in rowid order
near_rows(ns, quadkey) ==
    CHOOSE rows \in
        {[i \in 1..Len(ids) |-> RouteNode(row_of(ns, ids[i]))] :
         ids \in {Ascending({row.id : row \in
                    {row \in ns : /\ row.quadkey # NULL
                                  /\ SubSeq(row.quadkey, 1, QUERY_ZOOM) = quadkey}})}} :
        TRUE

\* find_near_err: the zoom-12 key of the point, then the rows of the
\* statement, then the nearest of them; Err when there is none.  Each let of
\* the function is bound once, in the order of the code.
find_near_err(ns, lat, lon) ==
    LET goal == [id |-> 0, lat |-> lat, lon |-> lon]
        min_node(rows) ==
            IF rows = <<>> THEN None ELSE min_by(Tail(rows), goal, Head(rows))
    IN CHOOSE found \in
            {min_node(nodes_iter) : nodes_iter \in
                {near_rows(ns, quadkey) : quadkey \in {Quadkey_new(lat, lon, QUERY_ZOOM)}}} :
            TRUE

\* find_near: Ok(node) => Some(node), Err(_) => None
find_near(ns, lat, lon) == find_near_err(ns, lat, lon)

\* the rows of one statement of neighbours_res: the links whose column
\* `mine` is the node, joined to the node row of the column `other`; a link
\* whose other end has no row gives NULLs, an Err row, and is filtered out
RECURSIVE joined(_, _, _, _, _, _)
joined(ns, ls, node, mine, other, i) ==
    IF i > Len(ls) THEN <<>>
    ELSE (IF ls[i][mine] = node.id /\ has_row(ns, ls[i][other])
          THEN LET n == RouteNode(row_of(ns, ls[i][other]))
               IN <<[node |-> n, cost |-> distance_between(node, n)]>>
          ELSE <<>>)
         \o joined(ns, ls, node, mine, other, i + 1)

\* neighbours_res with the statement over l.destination = ? left out
neighbours_res_src(ns, ls, node) ==
    joined(ns, ls, node, "source", "destination", 1)

\* neighbours_res: stmt_src chained with stmt_dst
neighbours_res(ns, ls, node) ==
    joined(ns, ls, node, "source", "destination", 1)
    \o joined(ns, ls, node, "destination", "source", 1)

\* neighbours: neighbours_res(node).unwrap_or(Vec::new())
neighbours(ns, ls, node) == neighbours_res(ns, ls, node)

(***************************************************************************)
(* pathfinding::astar, as route calls it                                   *)
(***************************************************************************)
\* |n| n.distance_to(&goal)
heuristic(n, goal) == distance_between(n, goal)

\* the goal test without the identity
success_far(n, goal) == n.id # goal.id /\ distance_between(n, goal) < GOAL_RADIUS

\* |n| *n == goal || n.distance_to(&goal) < 100
success(n, goal) == n.id = goal.id \/ distance_between(n, goal) < GOAL_RADIUS

\* the entries BinaryHeap::pop may give: least estimated_cost, and of these
\* the greatest cost (Ord of SmallestCostHolder); the order of entries equal
\* in both is the heap's own
heap_tops(to_see) ==
    {e \in to_see : \A o \in to_see :
        \/ o.estimated_cost > e.estimated_cost
        \/ o.estimated_cost = e.estimated_cost /\ o.cost <= e.cost}

\* the index of a node in the IndexMap parents (RouteNode is equal by id), 0
\* when it is not a key
index_of(parents, n) ==
    IF \E i \in 1..Len(parents) : parents[i].node.id = n.id
    THEN CHOOSE i \in 1..Len(parents) : parents[i].node.id = n.id
    ELSE 0

\* reverse_path: the keys from the start (parent 0) to index
RECURSIVE reverse_path(_, _)
reverse_path(parents, index) ==
    IF index = 0 THEN <<>>
    ELSE Append(reverse_path(parents, parents[index].parent), parents[index].node)

\* the loop over the successors of the entry popped
RECURSIVE astar_successors(_, _, _, _, _, _)
astar_successors(succs, index, cost, to_see, parents, goal) ==
    IF succs = <<>> THEN [to_see |-> to_see, parents |-> parents]
    ELSE LET successor == Head(succs).node
             new_cost  == cost + Head(succs).cost
             n         == index_of(parents, successor)
             entry(k)  == [estimated_cost |-> new_cost + heuristic(successor, goal),
                           cost |-> new_cost, index |-> k]
         IN IF n = 0
            THEN astar_successors(Tail(succs), index, cost,
                    to_see \cup {entry(Len(parents) + 1)},
                    Append(parents, [node |-> successor, parent |-> index, cost |-> new_cost]),
                    goal)
            ELSE IF parents[n].cost > new_cost
            THEN astar_successors(Tail(succs), index, cost,
                    to_see \cup {entry(n)},
                    [parents EXCEPT ![n].parent = index, ![n].cost = new_cost],
                    goal)
            ELSE astar_successors(Tail(succs), index, cost, to_see, parents, goal)

\* the while loop of astar: every result it can return from this heap
RECURSIVE astar_loop(_, _, _, _, _)
astar_loop(ns, ls, to_see, parents, goal) ==
    IF to_see = {} THEN {None}
    ELSE UNION {
        LET node == parents[e.index].node
            rest == to_see \ {e}
        IN IF success(node, goal)
           THEN {[some |-> TRUE, path |-> reverse_path(parents, e.index), distance |-> e.cost]}
           ELSE IF e.cost > parents[e.index].cost
           THEN astar_loop(ns, ls, rest, parents, goal)
           ELSE LET x == astar_successors(neighbours(ns, ls, node), e.index, e.cost,
                                          rest, parents, goal)
                IN astar_loop(ns, ls, x.to_see, x.parents, goal)
        : e \in heap_tops(to_see)}

\* astar(&start, |n| database.neighbours(n), |n| n.distance_to(&goal), ...)
astar(ns, ls, start, goal) ==
    astar_loop(ns, ls, {[estimated_cost |-> 0, cost |-> 0, index |-> 1]},
               <<[node |-> start, parent |-> 0, cost |-> 0]>>, goal)

(***************************************************************************)
(* main.rs: the route handler                                              *)
(***************************************************************************)
Requests == 1..MaxRequests

\* the coordinates a request may carry
QueryPoints == {OnEquator(1000), OnEquator(2202), OnEquator(50000)}

QueryParams ==
    {[lat1 |-> Equator, lon1 |-> a, lat2 |-> Equator, lon2 |-> b] :
        a \in QueryPoints, b \in QueryPoints}

NoParams == [lat1 |-> Equator, lon1 |-> OnEquator(0), lat2 |-> Equator, lon2 |-> OnEquator(0)]

\* a Mutex that lets every caller in
lock_granted_always(holder) == TRUE

\* Mutex::lock finds the permit when no guard is alive
lock_granted(holder) == holder = Free

\* handle_rejection without the branch of err.find::<NodeNotFound>()
handle_rejection_no_custom(err) ==
    IF err = "not_found"
    THEN [status |-> 404, code |-> 404, message |-> "NOT_FOUND"]
    ELSE [status |-> 500, code |-> 500, message |-> "UNHANDLED_REJECTION"]

\* handle_rejection: reject() is the not-found rejection
handle_rejection(err) ==
    IF err = "not_found"
    THEN [status |-> 404, code |-> 404, message |-> "NOT_FOUND"]
    ELSE IF err = "NodeNotFound"
    THEN [status |-> 400, code |-> 400, message |-> "Node not found"]
    ELSE [status |-> 500, code |-> 500, message |-> "UNHANDLED_REJECTION"]

\* the reply of route for Some((nodes, distance))
reply_ok(res) ==
    [status |-> 200,
     linestring |-> [i \in 1..Len(res.path) |-> <<res.path[i].lat, res.path[i].lon>>],
     distance |-> res.distance]

\* warp calls route for the r-th request to arrive: db_pool.lock().await
\* takes the Mutex or queues
route_call(r, q) ==
    /\ proc = "serve"
    /\ pc[r] = "idle"
    /\ \A k \in Requests : k < r => pc[k] # "idle"
    /\ params' = [params EXCEPT ![r] = q]
    /\ IF lock_granted(lock)
       THEN /\ lock' = r
            /\ pc' = [pc EXCEPT ![r] = "locked"]
            /\ UNCHANGED waiters
       ELSE /\ waiters' = Append(waiters, r)
            /\ pc' = [pc EXCEPT ![r] = "waiting"]
            /\ UNCHANGED lock
    /\ UNCHANGED <<store_vars, proc, import_vars, maybe_start, maybe_goal, result,
                   rejection, response, failure,
                   tile_vars, open_vars>>

\* a Mutex whose release wakes no waiter
unlock_no_wake(r, next) ==
    /\ lock' = Free
    /\ pc' = [pc EXCEPT ![r] = next]
    /\ UNCHANGED waiters

\* route returns and its guard is dropped: the Mutex goes to the first
\* waiter, or is free
unlock(r, next) ==
    IF waiters = <<>>
    THEN /\ lock' = Free
         /\ pc' = [pc EXCEPT ![r] = next]
         /\ UNCHANGED waiters
    ELSE /\ lock' = Head(waiters)
         /\ pc' = [pc EXCEPT ![r] = next, ![Head(waiters)] = "locked"]
         /\ waiters' = Tail(waiters)

\* a resolver that stores the point it is asked for as the node 0
route_find_start_storing(r) ==
    /\ pc[r] = "locked"
    /\ maybe_start' = [maybe_start EXCEPT ![r] = find_near(nodes, params[r].lat1, params[r].lon1)]
    /\ nodes' = update_node(nodes, [id |-> 0, lat |-> params[r].lat1, lon |-> params[r].lon1])
    /\ pc' = [pc EXCEPT ![r] = "found_start"]
    /\ UNCHANGED <<links, foreign_keys, proc, import_vars, params, maybe_goal, result,
                   rejection, response, failure, lock, waiters, tile_vars, open_vars>>

\* let maybe_start = database.find_near(lat1, lon1)
route_find_start(r) ==
    /\ pc[r] = "locked"
    /\ maybe_start' = [maybe_start EXCEPT ![r] = find_near(nodes, params[r].lat1, params[r].lon1)]
    /\ pc' = [pc EXCEPT ![r] = "found_start"]
    /\ UNCHANGED <<store_vars, proc, import_vars, params, maybe_goal, result, rejection,
                   response, lock, waiters, failure,
                   tile_vars, open_vars>>

\* let maybe_goal = database.find_near(lat2, lon2)
route_find_goal(r) ==
    /\ pc[r] = "found_start"
    /\ maybe_goal' = [maybe_goal EXCEPT ![r] = find_near(nodes, params[r].lat2, params[r].lon2)]
    /\ pc' = [pc EXCEPT ![r] = "found_goal"]
    /\ UNCHANGED <<store_vars, proc, import_vars, params, maybe_start, result, rejection,
                   response, lock, waiters, failure,
                   tile_vars, open_vars>>

\* if maybe_start.is_none() || maybe_goal.is_none(): Err(reject::custom(NodeNotFound))
route_node_not_found(r) ==
    /\ pc[r] = "found_goal"
    /\ maybe_start[r] = None \/ maybe_goal[r] = None
    /\ rejection' = [rejection EXCEPT ![r] = "NodeNotFound"]
    /\ unlock(r, "rejected")
    /\ UNCHANGED <<store_vars, proc, import_vars, params, maybe_start, maybe_goal, result,
                   response, failure,
                   tile_vars, open_vars>>

\* the rest of route: astar, and the reply or Err(reject())
route_search(r) ==
    /\ pc[r] = "found_goal"
    /\ maybe_start[r] # None /\ maybe_goal[r] # None
    /\ \E res \in astar(nodes, links, maybe_start[r], maybe_goal[r]) :
          /\ result' = [result EXCEPT ![r] = res]
          /\ IF res # None
             THEN /\ response' = [response EXCEPT ![r] = reply_ok(res)]
                  /\ unlock(r, "responded")
                  /\ UNCHANGED rejection
             ELSE /\ rejection' = [rejection EXCEPT ![r] = "not_found"]
                  /\ unlock(r, "rejected")
                  /\ UNCHANGED response
    /\ UNCHANGED <<store_vars, proc, import_vars, params, maybe_start, maybe_goal, failure,
                   tile_vars, open_vars>>

\* hello.recover(handle_rejection): the reply for an Err of route
route_recover(r) ==
    /\ pc[r] = "rejected"
    /\ response' = [response EXCEPT ![r] = handle_rejection(rejection[r])]
    /\ pc' = [pc EXCEPT ![r] = "responded"]
    /\ UNCHANGED <<store_vars, proc, import_vars, params, maybe_start, maybe_goal, result,
                   rejection, lock, waiters, failure,
                   tile_vars, open_vars>>

\* find_near of (lat1, lon1) when a statement of find_near_err returns a
\* rusqlite error (prepare or query_map, `?`): Err(_) => None
route_find_start_err(r) ==
    /\ pc[r] = "locked"
    /\ maybe_start' = [maybe_start EXCEPT ![r] = None]
    /\ failure' = [failure EXCEPT ![r] = "find_near"]
    /\ pc' = [pc EXCEPT ![r] = "found_start"]
    /\ UNCHANGED <<store_vars, proc, import_vars, params, maybe_goal, result, rejection,
                   response, lock, waiters, tile_vars, open_vars>>

\* the same for find_near of (lat2, lon2)
route_find_goal_err(r) ==
    /\ pc[r] = "found_start"
    /\ maybe_goal' = [maybe_goal EXCEPT ![r] = None]
    /\ failure' = [failure EXCEPT ![r] = "find_near"]
    /\ pc' = [pc EXCEPT ![r] = "found_goal"]
    /\ UNCHANGED <<store_vars, proc, import_vars, params, maybe_start, result, rejection,
                   response, lock, waiters, tile_vars, open_vars>>

\* the rest of route when the statements of neighbours_res return a rusqlite
\* error: the start does not pass the goal test, so astar calls neighbours,
\* and unwrap_or(Vec::new()) gives it what a table without links gives
route_search_err(r) ==
    /\ pc[r] = "found_goal"
    /\ maybe_start[r] # None /\ maybe_goal[r] # None
    /\ ~success(maybe_start[r], maybe_goal[r])
    /\ failure' = [failure EXCEPT ![r] = "neighbours"]
    /\ \E res \in astar(nodes, <<>>, maybe_start[r], maybe_goal[r]) :
          /\ result' = [result EXCEPT ![r] = res]
          /\ IF res # None
             THEN /\ response' = [response EXCEPT ![r] = reply_ok(res)]
                  /\ unlock(r, "responded")
                  /\ UNCHANGED rejection
             ELSE /\ rejection' = [rejection EXCEPT ![r] = "not_found"]
                  /\ unlock(r, "rejected")
                  /\ UNCHANGED response
    /\ UNCHANGED <<store_vars, proc, import_vars, params, maybe_start, maybe_goal,
                   tile_vars, open_vars>>

(***************************************************************************)
(* Tile key runs: Quadkey::new of one point at the zooms 1, 2, ...         *)
(***************************************************************************)
TilePoints ==
    {[lat |-> [n |-> y, d |-> TileDen], lon |-> [n |-> x, d |-> TileDen]] :
        x \in 0..TileDen, y \in 0..TileDen}

quadkey_next ==
    /\ proc = "tile"
    /\ Len(tkeys) < MaxZoom
    /\ tkeys' = Append(tkeys, Quadkey_new(tpoint.lat, tpoint.lon, Len(tkeys) + 1))
    /\ UNCHANGED <<store_vars, proc, import_vars, serve_vars, tpoint, open_vars>>

(***************************************************************************)
(* Specifications                                                          *)
(***************************************************************************)
NoDataset == [nodes |-> {}, ways |-> {}]

IdleServe ==
    /\ pc = [r \in Requests |-> "idle"]
    /\ params = [r \in Requests |-> NoParams]
    /\ maybe_start = [r \in Requests |-> None]
    /\ maybe_goal = [r \in Requests |-> None]
    /\ result = [r \in Requests |-> NotRun]
    /\ rejection = [r \in Requests |-> "none"]
    /\ response = [r \in Requests |-> NoReply]
    /\ failure = [r \in Requests |-> "none"]
    /\ lock = Free
    /\ waiters = <<>>

IdleImport ==
    /\ objs = <<>>
    /\ input = NoDataset
    /\ repeat = FALSE
    /\ history = <<>>
    /\ upserted = [id \in NodeIds |-> NoRecord]
    /\ moved = {}

IdleOpen == before = {}

IdleTile == tpoint = CHOOSE p \in TilePoints : p.lon.n = 0 /\ p.lat.n = 0
IdleTileKeys == tkeys = <<>>

\* the importer: runs of the import subcommand over a new database file
Init ==
    /\ nodes = EmptyNodes
    /\ links = <<>>
    /\ foreign_keys \in BOOLEAN
    /\ proc = "down"
    /\ IdleImport /\ IdleServe /\ IdleTile /\ IdleTileKeys /\ IdleOpen

Next ==
    \/ \E ds \in Datasets : start_import(ds)
    \/ import_object
    \/ finish_import

Spec == Init /\ [][Next]_vars

\* the server over the database file an import has left
InitServe ==
    /\ \E ds \in Datasets, fk \in BOOLEAN :
          LET r == load_osm_pbf(EmptyNodes, <<>>, fk, objs_in_order(ds))
          IN /\ nodes = fixup_quadkeys(r.nodes)
             /\ links = r.links
             /\ foreign_keys = fk
    /\ proc = "serve"
    /\ IdleImport /\ IdleServe /\ IdleTile /\ IdleTileKeys /\ IdleOpen

NextServe ==
    \/ \E r \in Requests, q \in QueryParams : route_call(r, q)
    \/ \E r \in Requests : route_find_start(r)
    \/ \E r \in Requests : route_find_goal(r)
    \/ \E r \in Requests : route_node_not_found(r)
    \/ \E r \in Requests : route_search(r)
    \/ \E r \in Requests : route_recover(r)

SpecServe == InitServe /\ [][NextServe]_vars

\* the steps of the task of one request, once warp has called route
route_step(r) ==
    \/ route_find_start(r)
    \/ route_find_goal(r)
    \/ route_node_not_found(r)
    \/ route_search(r)
    \/ route_recover(r)

\* the server over an import of nodes whose distances end near the half
\* metre: 100.0 m, 150.4 m and 219.8 m along the equator
RoundingNodeRecords == {Node(1, 1000), Node(2, 1504), Node(3, 2198)}
RoundingWayRecords  == {Way(1, <<1, 2, 3>>), Way(2, <<1, 2>>)}

RoundingDatasets ==
    {[nodes |-> ns, ways |-> ws] :
        ns \in SUBSET RoundingNodeRecords, ws \in SUBSET RoundingWayRecords}

InitRounding ==
    /\ \E ds \in RoundingDatasets, fk \in BOOLEAN :
          LET r == load_osm_pbf(EmptyNodes, <<>>, fk, objs_in_order(ds))
          IN /\ nodes = fixup_quadkeys(r.nodes)
             /\ links = r.links
             /\ foreign_keys = fk
    /\ proc = "serve"
    /\ IdleImport /\ IdleServe /\ IdleTile /\ IdleTileKeys /\ IdleOpen

SpecRounding == InitRounding /\ [][NextServe]_vars

\* the server asked for routes from places between the nodes: 125.4 m (25.4 m
\* from node 1, 25.2 m from node 2), 200.0 m, and 5000 m (in the next zoom-12
\* tile), each to the place at 200.0 m
NearPoints == {OnEquator(1254), OnEquator(2000), OnEquator(50000)}

NearParams ==
    {[lat1 |-> Equator, lon1 |-> a, lat2 |-> Equator, lon2 |-> OnEquator(2000)] :
        a \in NearPoints}

NextNear ==
    \/ \E r \in Requests, q \in NearParams : route_call(r, q)
    \/ \E r \in Requests : route_step(r)

SpecNear == InitServe /\ [][NextNear]_vars

\* the same server under the tokio runtime, which polls every task that is
\* ready
SpecServeFair == SpecNear /\ \A r \in Requests : WF_vars(route_step(r))

\* the server over a store of which a statement may fail (the file is
\* locked by another process, an I/O error)
NextFaulty ==
    \/ NextServe
    \/ \E r \in Requests : route_find_start_err(r)
    \/ \E r \in Requests : route_find_goal_err(r)
    \/ \E r \in Requests : route_search_err(r)

SpecFaulty == InitServe /\ [][NextFaulty]_vars

\* the tile key of one point at growing zoom
InitTile ==
    /\ nodes = EmptyNodes
    /\ links = <<>>
    /\ foreign_keys = FALSE
    /\ proc = "tile"
    /\ tpoint \in TilePoints
    /\ IdleImport /\ IdleServe /\ IdleTileKeys /\ IdleOpen

NextTile == quadkey_next

SpecTile == InitTile /\ [][NextTile]_vars

\* Database::new over the file of an earlier run or of another writer
InitOpen ==
    /\ nodes \in Files
    /\ links = <<>>
    /\ foreign_keys \in BOOLEAN
    /\ proc = "down"
    /\ IdleImport /\ IdleServe /\ IdleTile /\ IdleTileKeys /\ IdleOpen

NextOpen == Database_new

SpecOpen == InitOpen /\ [][NextOpen]_vars

(***************************************************************************)
(* Properties                                                              *)
(***************************************************************************)
Finished == {"rejected", "responded"}       \* route has returned
InRoute  == {"locked", "found_start", "found_goal"}   \* route holds the guard

Reply400 == [status |-> 400, code |-> 400, message |-> "Node not found"]

\* C1: two finished import runs of the same input, one after the other,
\* leave the same number of node rows and the same number of link rows as
\* the first of them left.
C1_ImportIdempotent ==
    \A i \in 1..(Len(history) - 1) :
        (/\ history[i + 1].repeat
         /\ history[i].ok /\ history[i + 1].ok)
        => /\ history[i + 1].nodes = history[i].nodes
           /\ history[i + 1].links = history[i].links

\* C2: a request whose two endpoints resolved and whose search returned None
\* is answered 200 with an empty linestring and distance 0.
C2_NoPathIsSuccess ==
    \A r \in Requests :
        (pc[r] = "responded" /\ result[r] = None)
        => response[r] = [status |-> 200, linestring |-> <<>>, distance |-> 0]

\* the stored nodes joined to u by a link row in either direction
adjacent(ns, ls, u) ==
    {v \in ns : \E i \in 1..Len(ls) :
        \/ ls[i].source = u.id /\ ls[i].destination = v.id
        \/ ls[i].source = v.id /\ ls[i].destination = u.id}

\* the costs of the paths of at most k links from the row start to each row
RECURSIVE path_costs(_, _, _, _)
path_costs(ns, ls, start, k) ==
    IF k = 0 THEN [v \in ns |-> IF v.id = start.id THEN {0} ELSE {}]
    ELSE LET d == path_costs(ns, ls, start, k - 1)
         IN [v \in ns |->
                d[v] \cup UNION {{c + distance_between(u, v) : c \in d[u]} :
                                 u \in adjacent(ns, ls, v)}]

\* the least cost of a path without a repeated node from start to a stored
\* node that passes the goal test
min_goal_cost(ns, ls, start, goal) ==
    LET d == path_costs(ns, ls, start, Cardinality(ns))
        costs == UNION {d[v] : v \in {v \in ns : success(RouteNode(v), goal)}}
    IN CHOOSE c \in costs : \A o \in costs : c <= o

\* C3: the distance of a search that succeeded is the least cost of a path of
\* the undirected stored graph from the start to a node passing the goal test.
C3_SearchOptimal ==
    \A r \in Requests :
        (result[r] # NotRun /\ result[r] # None)
        => result[r].distance = min_goal_cost(nodes, links, maybe_start[r], maybe_goal[r])

\* C4: at most one request is between taking the Mutex and the return of
\* route, it is the holder of the Mutex, and a request that has not taken
\* the Mutex has made no call of the store.
C4_RequestAtomicity ==
    /\ Cardinality({r \in Requests : pc[r] \in InRoute}) <= 1
    /\ \A r \in Requests : pc[r] \in InRoute => lock = r
    /\ \A r \in Requests :
          pc[r] \in {"idle", "waiting"}
          => maybe_start[r] = None /\ maybe_goal[r] = None /\ result[r] = NotRun

\* one request has made its first call of the store while another waits
C4_Witness ==
    \E r, w \in Requests : pc[r] = "found_start" /\ pc[w] = "waiting" /\ lock = r

\* C5: a request of which an endpoint did not resolve ran no search, is
\* rejected with NodeNotFound, and its reply is 400, code 400, "Node not found".
C5_EndpointNotFound ==
    \A r \in Requests :
        (pc[r] \in Finished /\ (maybe_start[r] = None \/ maybe_goal[r] = None))
        => /\ result[r] = NotRun
           /\ rejection[r] = "NodeNotFound"
           /\ pc[r] = "responded" => response[r] = Reply400

\* a request answered after its start resolved and its goal did not
C5_Witness ==
    \E r \in Requests :
        /\ pc[r] = "responded"
        /\ maybe_start[r] # None /\ maybe_goal[r] = None
        /\ response[r].status = 400

\* C6: the first k characters of the key at zoom z are the key at zoom k, for
\* every 1 <= k < z.
C6_PrefixHierarchy ==
    \A z \in 1..Len(tkeys) : \A k \in 1..(z - 1) :
        SubSeq(tkeys[z], 1, k) = tkeys[k]

\* C7: find_near of a point at which a node is stored returns a node at
\* distance 0 of the point.
C7_ResolutionExact ==
    \A r \in Requests :
        (/\ pc[r] \notin {"idle", "waiting", "locked"}
         /\ \E row \in nodes : row.lat = params[r].lat1 /\ row.lon = params[r].lon1)
        => /\ maybe_start[r] # None
           /\ distance_between(maybe_start[r],
                                [lat |-> params[r].lat1, lon |-> params[r].lon1]) = 0

\* C8: the table holds one row per id that was upserted and no other row,
\* and the row of an id carries the lat, the lon and the zoom-13 key of the
\* last upsert of that id.
C8_NodeIdentity ==
    /\ \A a, b \in nodes : a.id = b.id => a = b
    /\ node_count(nodes) = Cardinality({id \in NodeIds : upserted[id] # NoRecord})
    /\ \A id \in NodeIds :
          upserted[id] # NoRecord
          => /\ has_row(nodes, id)
             /\ row_of(nodes, id).lat = upserted[id].lat
             /\ row_of(nodes, id).lon = upserted[id].lon
             /\ row_of(nodes, id).quadkey =
                    Quadkey_new(upserted[id].lat, upserted[id].lon, STORE_ZOOM)

\* the last upsert of an id replaced a row of another place, and the table
\* holds a row of a second id
C8_Witness ==
    \E id \in moved : \E other \in nodes : other.id # id

\* C9: for stored nodes u and v, v is among neighbours(u) exactly when a link
\* row (u, v) or (v, u) exists, exactly when u is among neighbours(v), and
\* the two costs are equal.
C9_UndirectedAdjacency ==
    \A u, v \in nodes :
        LET nu == neighbours(nodes, links, RouteNode(u))
            nv == neighbours(nodes, links, RouteNode(v))
            iu == {i \in 1..Len(nu) : nu[i].node.id = v.id}
            iv == {j \in 1..Len(nv) : nv[j].node.id = u.id}
        IN /\ (iu # {}) <=> (v \in adjacent(nodes, links, u))
           /\ (iu # {}) <=> (iv # {})
           /\ \A i \in iu, j \in iv : nu[i].cost = nv[j].cost

\* a search has gone from a node to the source of a link of which the node
\* is the destination, no link leading the other way
C9_Witness ==
    \E r \in Requests :
        /\ result[r] # NotRun /\ result[r] # None
        /\ Len(result[r].path) >= 2
        /\ \A i \in 1..Len(links) :
              ~(links[i].source = result[r].path[1].id
                /\ links[i].destination = result[r].path[2].id)

\* C10: a request whose two endpoints resolved to one node is answered 200
\* with the one point of that node and distance 0.
C10_SameNode ==
    \A r \in Requests :
        (/\ pc[r] \in Finished
         /\ maybe_start[r] # None /\ maybe_goal[r] # None
         /\ maybe_start[r].id = maybe_goal[r].id)
        => response[r] =
              [status |-> 200,
               linestring |-> << <<maybe_start[r].lat, maybe_start[r].lon>> >>,
               distance |-> 0]

\* such a request answered, the node having neighbours
C10_Witness ==
    \E r \in Requests :
        /\ pc[r] = "responded"
        /\ maybe_start[r] # None /\ maybe_goal[r] # None
        /\ maybe_start[r].id = maybe_goal[r].id
        /\ neighbours(nodes, links, maybe_start[r]) # <<>>

\* C11: when Database::new has returned Ok no node row has a NULL key, every
\* row that had a NULL key holds the zoom-13 key of its lat and lon, and every
\* row that had a key is as it was.
C11_BackfillOnOpen ==
    proc = "opened"
    => /\ \A row \in nodes : row.quadkey # NULL
       /\ \A old \in before :
             IF old.quadkey = NULL
             THEN [old EXCEPT !.quadkey = Quadkey_new(old.lat, old.lon, STORE_ZOOM)] \in nodes
             ELSE old \in nodes
       /\ node_count(nodes) = node_count(before)

\* C12: a request during which a call of the store returned a storage error
\* is not answered 400 "Node not found", and its search did not end without
\* a path: the error reaches the front-end as it is.
C12_FailurePropagation ==
    \A r \in Requests :
        (pc[r] = "responded" /\ failure[r] # "none")
        => /\ response[r] # Reply400
           /\ result[r] # None

\* a point of a linestring as a place
place(p) == [lat |-> p[1], lon |-> p[2]]

\* the sum of the rounded distances of the consecutive points
RECURSIVE hop_sum(_)
hop_sum(ps) ==
    IF Len(ps) < 2 THEN 0
    ELSE distance_between(place(ps[1]), place(ps[2])) + hop_sum(Tail(ps))

\* C13: a reply 200 has a linestring that is not empty, whose first point is
\* within 100 m of (lat1, lon1) and whose last point is within 100 m of
\* (lat2, lon2), whose consecutive points are the ends of a link row, and a
\* distance that is the sum of the rounded distances of consecutive points.
C13_RouteResultShape ==
    \A r \in Requests :
        (pc[r] = "responded" /\ response[r].status = 200)
        => LET line == response[r].linestring
               path == result[r].path
           IN /\ line # <<>>
              /\ distance_between(place(line[1]),
                        [lat |-> params[r].lat1, lon |-> params[r].lon1]) <= GOAL_RADIUS
              /\ distance_between(place(line[Len(line)]),
                        [lat |-> params[r].lat2, lon |-> params[r].lon2]) <= GOAL_RADIUS
              /\ \A i \in 1..(Len(path) - 1) :
                    \E v \in adjacent(nodes, links, path[i]) : v.id = path[i + 1].id
              /\ response[r].distance = hop_sum(line)

\* C14: the key of a point at zoom z has z characters, the j-th of which is
\* the digit of {0, 1, 2, 3} made of bit z-j of xtile and twice bit z-j of
\* ytile; the key of the point (0.0, 0.0), xtile = ytile = 8, at zoom 4 is
\* "3000".
C14_TileKeyConstruction ==
    \A z \in 1..Len(tkeys) :
        LET t == tile(tpoint.lat, tpoint.lon, z)
            bit(x, k) == (x \div Pow2(k)) % 2
        IN /\ Len(tkeys[z]) = z
           /\ \A j \in 1..z :
                 tkeys[z][j] = <<"0", "1", "2", "3">>[1 + bit(t[1], z - j) + 2 * bit(t[2], z - j)]
           /\ (z = 4 /\ t = <<8, 8>>) => tkeys[z] = <<"3", "0", "0", "0">>

\* the key of (0.0, 0.0) at zoom 4 has been made
C14_Witness ==
    /\ Len(tkeys) >= 4
    /\ 2 * tpoint.lat.n = tpoint.lat.d /\ 2 * tpoint.lon.n = tpoint.lon.d
    /\ tile(tpoint.lat, tpoint.lon, 4) = <<8, 8>>
    /\ tkeys[4] = <<"3", "0", "0", "0">>

\* C15: in a search with goal g, h(u) <= cost(u, v) + h(v) for every two
\* stored nodes u, v joined by a link row, and h(n) is at most the cost of
\* every path of link rows from n to g; h and cost are the rounded distances.
C15_HeuristicConsistent ==
    \A r \in Requests :
        result[r] # NotRun
        => LET g == maybe_goal[r]
           IN /\ \A u \in nodes : \A v \in adjacent(nodes, links, u) :
                    heuristic(RouteNode(u), g)
                        <= distance_between(u, v) + heuristic(RouteNode(v), g)
              /\ \A n \in nodes :
                    \A c \in path_costs(nodes, links, n, Cardinality(nodes))[row_of(nodes, g.id)] :
                        heuristic(RouteNode(n), g) <= c

\* C16: when an import run has ended, every link of a way of its input that
\* the store accepts is in the table, whichever other record failed, and so
\* is the row of every node of its input.
C16_FailureIsolation ==
    (proc = "down" /\ history # <<>>)
    => /\ \A way \in input.ways : \A i \in 1..(Len(way.refs) - 1) :
             link_accepted(nodes, foreign_keys, way.refs[i], way.refs[i + 1])
             => \E k \in 1..Len(links) :
                   links[k] = [source |-> way.refs[i], destination |-> way.refs[i + 1]]
       /\ \A id \in {rec.id : rec \in input.nodes} : has_row(nodes, id)

\* C17: an import run whose ways name ids without a node row returns Ok and
\* has stored every link of every way of its input, and neighbours of a
\* stored node holds no node whose id has no row.
C17_DanglingReferences ==
    (proc = "down" /\ history # <<>>)
    => /\ history[Len(history)].ok
       /\ \A way \in input.ways : \A i \in 1..(Len(way.refs) - 1) :
             \E k \in 1..Len(links) :
                links[k] = [source |-> way.refs[i], destination |-> way.refs[i + 1]]
       /\ \A u \in nodes :
             LET found == neighbours(nodes, links, RouteNode(u))
             IN \A i \in 1..Len(found) : has_row(nodes, found[i].node.id)

\* C18: no step of the handling of a route request changes the node rows or
\* the link rows, whatever the reply; the process that serves stays the
\* server and runs no step of the import.
C18_QueryReadOnly ==
    [][/\ nodes' = nodes
       /\ links' = links
       /\ proc = "serve" /\ proc' = "serve"
       /\ UNCHANGED import_vars]_vars

\* over a store with rows, one request was answered 200 and another 404
C18_Witness ==
    /\ nodes # {} /\ links # <<>>
    /\ \E a, b \in Requests :
          /\ pc[a] = "responded" /\ response[a].status = 200
          /\ pc[b] = "responded" /\ response[b].status = 404

\* C19: a request that route has returned for holds the Mutex no more, and
\* every request that waits for the Mutex or holds it is in the end answered,
\* with the Mutex no longer its own.
C19_EventuallyAnswered ==
    /\ [](\A r \in Requests : pc[r] \in Finished => lock # r)
    /\ \A r \in Requests :
          (pc[r] \in {"waiting"} \cup InRoute)
          ~> (pc[r] = "responded" /\ response[r] # NoReply /\ lock # r)

\* a request is queued while the holder of the Mutex is about to search
C19_Witness ==
    \E r, w \in Requests :
        /\ pc[w] = "waiting" /\ waiters = <<w>>
        /\ lock = r /\ pc[r] = "found_goal"
        /\ maybe_start[r] # None /\ maybe_goal[r] # None

\* the rows whose stored key begins with the zoom-12 key of the point
candidates(ns, lat, lon) ==
    UNION {{row \in ns : /\ row.quadkey # NULL
                         /\ SubSeq(row.quadkey, 1, QUERY_ZOOM) = key} :
           key \in {Quadkey_new(lat, lon, QUERY_ZOOM)}}

\* found is what the claim says find_near of the point returns
nearest_of(found, ns, lat, lon) ==
    LET point == [lat |-> lat, lon |-> lon]
    IN \A cands \in {candidates(ns, lat, lon)} :
          IF cands = {} THEN found = None
          ELSE /\ found # None
               /\ \E row \in cands : RouteNode(row) = found
               /\ \A other \in cands :
                     \/ distance_between(found, point) < distance_between(other, point)
                     \/ /\ distance_between(found, point) = distance_between(other, point)
                        /\ found.id <= other.id

\* C20: find_near of a point returns None exactly when no row has a key that
\* begins with the zoom-12 key of the point, and otherwise the row of least
\* rounded distance among those rows, the first in row order of the rows of
\* that distance.
C20_NearestNode ==
    \A r \in Requests :
        /\ pc[r] \notin {"idle", "waiting", "locked"}
           => nearest_of(maybe_start[r], nodes, params[r].lat1, params[r].lon1)
        /\ pc[r] \notin {"idle", "waiting", "locked", "found_start"}
           => nearest_of(maybe_goal[r], nodes, params[r].lat2, params[r].lon2)

\* find_near returned the first of two rows at one rounded distance, a third
\* row being farther
C20_Witness ==
    \E r \in Requests :
        /\ pc[r] \notin {"idle", "waiting", "locked"}
        /\ maybe_start[r] # None
        /\ LET point == [lat |-> params[r].lat1, lon |-> params[r].lon1]
               cands == candidates(nodes, params[r].lat1, params[r].lon1)
           IN /\ \E other \in cands :
                    /\ other.id > maybe_start[r].id
                    /\ distance_between(other, point) = distance_between(maybe_start[r], point)
              /\ \E far \in cands :
                    distance_between(far, point) > distance_between(maybe_start[r], point)

====
